---- MODULE Spec2Model ----
(***************************************************************************)
(* A model of src/src/pwalk_ext/pwalk_core.c: the parallel directory walk  *)
(* (traverse), the per-slot buffers (write_record, flush_buffer) and the   *)
(* entry point (csv_write) with its polling loop and its finalization.     *)
(*                                                                         *)
(* Threads: the caller of csv_write (the "main" thread) and one worker     *)
(* thread per claimed slot of tdslot. pthread_create is taken to succeed   *)
(* (the code never looks at its result).                                   *)
(***************************************************************************)
EXTENDS Integers, Sequences, FiniteSets, Bags, TLC

\* Scaled-down sizes of the source's MAXTHRDS (32), BUFFER_SIZE (512 KiB, here
\* counted in tokens of a line) and max_iterations (3600).
MAXTHRDS == 2
BUFFER_SIZE == 5
max_iterations == 2

\* The "unused" sentinel of tdslot[i].THRDid.
UNUSED == -1

(***************************************************************************)
(* The filesystem, which does not change during a walk. A node is named by *)
(* its inode number; a path is modelled by the node it names. lstat_ok and *)
(* open_ok say whether lstat() and opendir() succeed on the node.          *)
(***************************************************************************)
DirNode(name, ents, ook) ==
    [kind |-> "dir", d_name |-> name, st_size |-> 4, lstat_ok |-> TRUE,
     open_ok |-> ook, ents |-> ents]

FileNode(name, size, lok) ==
    [kind |-> "file", d_name |-> name, st_size |-> size, lstat_ok |-> lok,
     open_ok |-> FALSE, ents |-> <<>>]

FS ==
    \* /t5: more subdirectories than free worker slots, one file in each
    (10 :> DirNode("t5", <<11, 12, 13>>, TRUE)) @@
    (11 :> DirNode("d1", <<14>>, TRUE)) @@
    (12 :> DirNode("d2", <<15>>, TRUE)) @@
    (13 :> DirNode("d3", <<16>>, TRUE)) @@
    (14 :> FileNode("f1", 5, TRUE)) @@
    (15 :> FileNode("f2", 5, TRUE)) @@
    (16 :> FileNode("f3", 5, TRUE)) @@
    \* /t3: a file, a ".snapshot" directory, a directory that cannot be
    \* opened, an entry whose lstat fails, and a nested directory
    (20 :> DirNode("t3", <<21, 22, 24, 25, 26>>, TRUE)) @@
    (21 :> FileNode("x", 7, TRUE)) @@
    (22 :> DirNode(".snapshot", <<23>>, TRUE)) @@
    (23 :> FileNode("s", 1, TRUE)) @@
    (24 :> DirNode("sub", <<>>, FALSE)) @@
    (25 :> FileNode("gone", 9, FALSE)) @@
    (26 :> DirNode("d", <<27, 28>>, TRUE)) @@
    (27 :> FileNode("a.txt", 2, TRUE)) @@
    (28 :> FileNode("b", 3, TRUE)) @@
    \* a path that does not exist
    (90 :> FileNode("missing", 0, FALSE))

Nodes == DOMAIN FS

\* The values of csv_write's argument "top".
Tops == {10, 20, 90}

\* struct stat as far as the walk uses it.
Stat(n) == [st_ino |-> n, st_size |-> FS[n].st_size, isdir |-> FS[n].kind = "dir"]

NoStat == [st_ino |-> 0, st_size |-> 0, isdir |-> FALSE]

\* What readdir() returns for directory d, in order: ".", ".." and the entries.
ReadStream(d) ==
    <<[d_name |-> ".", node |-> d], [d_name |-> "..", node |-> d]>> \o
    [i \in 1..Len(FS[d].ents) |->
        [d_name |-> FS[FS[d].ents[i]].d_name, node |-> FS[d].ents[i]]]

\* The loop's three "continue"s: ".", "..", ".snapshot" when SNAPSHOT is set,
\* and an entry whose lstat fails.
Skipped(e, snap) ==
    \/ e.d_name = "."
    \/ e.d_name = ".."
    \/ (snap # 0 /\ e.d_name = ".snapshot")
    \/ ~FS[e.node].lstat_ok

\* The position of the first entry at or after i that the loop does not skip
\* (Len + 1 when readdir returns NULL first).
RECURSIVE NextEntry(_, _, _)
NextEntry(stream, i, snap) ==
    IF i > Len(stream) THEN i
    ELSE IF Skipped(stream[i], snap) THEN NextEntry(stream, i + 1, snap)
    ELSE i

(***************************************************************************)
(* Records and lines. A line is the tokens of one record: its text and its *)
(* terminating newline. w is the THRDid of the worker that formatted it    *)
(* (not part of the output; it lets the orders be compared).               *)
(***************************************************************************)
Rec(st, parent_inode, depth, fcount, dirsum) ==
    [ino |-> st.st_ino, pino |-> parent_inode, depth |-> depth,
     size |-> st.st_size, isdir |-> st.isdir, fcount |-> fcount, dirsum |-> dirsum]

Line(r, w) == <<[k |-> "text", r |-> r, w |-> w], [k |-> "nl", r |-> r, w |-> w]>>

NoLine == <<>>

Header == [k |-> "header"]

\* write_record's test before it appends.
NeedFlush(used, len) == used + len >= BUFFER_SIZE

(***************************************************************************)
(* The output file: whether it is open, and the items written to it. With  *)
(* compression a flush writes one compressed chunk (ZSTD_e_continue) and   *)
(* finalization writes the frame's end (ZSTD_e_end).                       *)
(***************************************************************************)
Chunk(data) == [k |-> "z", data |-> data]

FrameEnd == [k |-> "zend"]

\* FlushItems gone wrong: the length handed to the write is one short.
FlushItemsShort(zs, data) ==
    IF zs # "NULL" THEN <<Chunk(SubSeq(data, 1, Len(data) - 1))>>
    ELSE SubSeq(data, 1, Len(data) - 1)

\* What flush_buffer writes for the buffer's content.
FlushItems(zs, data) == IF zs # "NULL" THEN <<Chunk(data)>> ELSE data

\* The record tokens a reader gets from the file's items: raw tokens as they
\* are, a compressed chunk decompressed.
RECURSIVE Payload(_)
Payload(items) ==
    IF items = <<>> THEN <<>>
    ELSE LET h == Head(items) IN
         (CASE h.k = "z" -> h.data
            [] h.k = "text" -> <<h>>
            [] h.k = "nl" -> <<h>>
            [] OTHER -> <<>>) \o Payload(Tail(items))

VARIABLES
    \* csv_write's globals
    ThreadCNT, totalTHRDS, tdslot, buffers, mutexFD, mutexOutput,
    output_file, SNAPSHOT, zstd_stream,
    \* csv_write's locals and position
    pcm, top, compress, iterations, active,
    \* the worker threads: th[s] is the call stack of the thread running on
    \* slot s (<<>>: none)
    th,
    \* history: the records each worker formatted, in order
    produced,
    \* the process died of a write through a closed file
    crashed

vars == <<ThreadCNT, totalTHRDS, tdslot, buffers, mutexFD, mutexOutput,
          output_file, SNAPSHOT, zstd_stream, pcm, top, compress, iterations,
          active, th, produced, crashed>>

globals == <<ThreadCNT, totalTHRDS, tdslot, buffers, mutexFD, mutexOutput,
             output_file, SNAPSHOT, zstd_stream>>

mainvars == <<pcm, top, compress, iterations, active>>

Slots == 0..(MAXTHRDS - 1)

\* Worker ids: totalTHRDS counts one per directory at most.
WorkerIds == 0..Cardinality({n \in Nodes : FS[n].kind = "dir"})

\* struct threadData (thread_id and tattr left out).
ZeroTD ==
    [dname |-> 0, pinode |-> 0, depth |-> 0, THRDid |-> 0, flag |-> 0,
     pstat |-> NoStat, buf |-> 0]

\* One activation of traverse(): its position and its locals. "new" says
\* where the pointer new points: "slot" (tdslot[slot]) or "local".
NewFrame ==
    [pc |-> "opendir", pos |-> 0, localCnt |-> 0, localSz |-> 0, slot |-> 0,
     new |-> "none", ent |-> 0, loc |-> ZeroTD, line |-> NoLine, ret |-> "none"]

Init ==
    /\ ThreadCNT = 0
    /\ totalTHRDS = 0
    /\ tdslot = [s \in Slots |-> ZeroTD]
    /\ buffers = [s \in Slots |-> <<>>]
    /\ mutexFD = {}
    /\ mutexOutput = {}
    /\ output_file = [open |-> FALSE, items |-> <<>>]
    /\ SNAPSHOT = 1
    /\ zstd_stream = "NULL"
    /\ pcm = "idle"
    /\ top = 0
    /\ compress = 0
    /\ iterations = 0
    /\ active = 0
    /\ th = [s \in Slots |-> <<>>]
    /\ produced = [w \in WorkerIds |-> <<>>]
    /\ crashed = FALSE

(***************************************************************************)
(* csv_write, the entry point (the main thread).                           *)
(***************************************************************************)

\* The main thread is at "where" (a process that died takes no further step).
AtMain(where) == ~crashed /\ pcm = where

\* LoopHead gone wrong: the loop has no bound.
LoopHeadForever(it) == "poll"

\* Where the polling loop's head goes: its body, or past the loop.
LoopHead(it) == IF it < max_iterations THEN "poll" ELSE "after"

\* Lines 227-244: the arguments, SNAPSHOT, fopen, and the compressor when asked.
Enter(t, snaps, comp, opened) ==
    /\ AtMain("idle")
    /\ top' = t
    /\ compress' = comp
    /\ SNAPSHOT' = snaps
    /\ IF opened
       THEN /\ output_file' = [open |-> TRUE, items |-> <<>>]
            /\ zstd_stream' = IF comp # 0 THEN "live" ELSE zstd_stream
            /\ pcm' = "header"
       ELSE /\ output_file' = [open |-> FALSE, items |-> <<>>]
            /\ zstd_stream' = zstd_stream
            /\ pcm' = "error"
    /\ UNCHANGED <<ThreadCNT, totalTHRDS, tdslot, buffers, mutexFD, mutexOutput,
                   iterations, active, th, produced, crashed>>

\* Lines 246-250: the header, written straight to the file.
WriteHeader ==
    /\ AtMain("header")
    /\ output_file' = [output_file EXCEPT !.items = Append(@, Header)]
    /\ pcm' = "init"
    /\ UNCHANGED <<ThreadCNT, totalTHRDS, tdslot, buffers, mutexFD, mutexOutput,
                   SNAPSHOT, zstd_stream, top, compress, iterations, active,
                   th, produced, crashed>>

\* Lines 252-261: the counters, the buffers and the slot table.
InitGlobals ==
    /\ AtMain("init")
    /\ ThreadCNT' = 0
    /\ totalTHRDS' = 0
    /\ buffers' = [s \in Slots |-> <<>>]
    /\ tdslot' = [s \in Slots |-> [tdslot[s] EXCEPT !.THRDid = UNUSED]]
    /\ pcm' = "lstat"
    /\ UNCHANGED <<mutexFD, mutexOutput, output_file, SNAPSHOT, zstd_stream,
                   top, compress, iterations, active, th, produced, crashed>>

\* AfterLstat gone wrong: the result of lstat is not looked at.
AfterLstatSeed(ok) == "seed"

\* Lines 264-267: where csv_write goes after lstat of the root.
AfterLstat(ok) == IF ok THEN "seed" ELSE "error"

\* Lines 263-267: lstat of the root; on failure the file is closed and the
\* call returns an error.
LstatRoot ==
    /\ AtMain("lstat")
    /\ pcm' = AfterLstat(FS[top].lstat_ok)
    /\ IF FS[top].lstat_ok
       THEN UNCHANGED output_file
       ELSE output_file' = [output_file EXCEPT !.open = FALSE]
    /\ UNCHANGED <<ThreadCNT, totalTHRDS, tdslot, buffers, mutexFD, mutexOutput,
                   SNAPSHOT, zstd_stream, top, compress, iterations, active,
                   th, produced, crashed>>

\* Lines 269-283: slot 0 is seeded and counted, the loop's variables are set.
SeedRoot ==
    /\ AtMain("seed")
    /\ tdslot' = [tdslot EXCEPT ![0] =
                    [dname |-> top, pinode |-> 0, depth |-> -1,
                     THRDid |-> totalTHRDS, flag |-> 0, pstat |-> Stat(top),
                     buf |-> 0]]
    /\ totalTHRDS' = totalTHRDS + 1
    /\ ThreadCNT' = 1
    /\ iterations' = 0
    /\ active' = 1
    /\ pcm' = "create"
    /\ UNCHANGED <<buffers, mutexFD, mutexOutput, output_file, SNAPSHOT,
                   zstd_stream, top, compress, th, produced, crashed>>

\* Line 288: the root worker is created on slot 0.
CreateRoot ==
    /\ AtMain("create")
    /\ th' = [th EXCEPT ![0] = <<NewFrame>>]
    /\ pcm' = LoopHead(iterations)
    /\ UNCHANGED <<globals, top, compress, iterations, active, produced, crashed>>

\* LeaveLoop gone wrong: the loop is left while one worker is still counted.
LeaveLoopEarly(cnt) == cnt <= 1

\* Line 298: the loop is left when the counter was read as zero.
LeaveLoop(cnt) == cnt = 0

\* Lines 291-301: one turn of the loop: sleep, read ThreadCNT under mutexFD,
\* leave on zero, count the turn otherwise.
Poll ==
    /\ AtMain("poll")
    /\ mutexFD = {}
    /\ active' = ThreadCNT
    /\ IF LeaveLoop(ThreadCNT)
       THEN /\ pcm' = "after"
            /\ UNCHANGED iterations
       ELSE /\ iterations' = iterations + 1
            /\ pcm' = LoopHead(iterations + 1)
    /\ UNCHANGED <<globals, top, compress, th, produced, crashed>>

\* Lines 305-311: the warning on timeout, then on to finalization.
AfterLoop ==
    /\ AtMain("after")
    /\ pcm' = IF compress # 0 /\ zstd_stream # "NULL" THEN "zend" ELSE "fclose"
    /\ UNCHANGED <<globals, top, compress, iterations, active, th, produced,
                   crashed>>

\* What using the compressor from the main thread can do while a worker is
\* inside flush_buffer with it (csv_write does not take mutexOutput): go on,
\* or bring the process down.
RaceOutcomes == IF mutexOutput # {} THEN {FALSE, TRUE} ELSE {FALSE}

\* Lines 312-317: the frame's end is written.
ZEnd ==
    /\ AtMain("zend")
    /\ output_file' = [output_file EXCEPT !.items = Append(@, FrameEnd)]
    /\ zstd_stream' = "ended"
    /\ crashed' \in RaceOutcomes
    /\ pcm' = "zfree"
    /\ UNCHANGED <<ThreadCNT, totalTHRDS, tdslot, buffers, mutexFD, mutexOutput,
                   SNAPSHOT, top, compress, iterations, active, th, produced>>

\* Lines 319-320: the compressor is freed and the pointer cleared.
ZFree ==
    /\ AtMain("zfree")
    /\ zstd_stream' = "NULL"
    /\ crashed' \in RaceOutcomes
    /\ pcm' = "fclose"
    /\ UNCHANGED <<ThreadCNT, totalTHRDS, tdslot, buffers, mutexFD, mutexOutput,
                   output_file, SNAPSHOT, top, compress, iterations, active, th,
                   produced>>

\* Lines 324-326: the file is closed and the result returned.
Fclose ==
    /\ AtMain("fclose")
    /\ output_file' = [output_file EXCEPT !.open = FALSE]
    /\ pcm' = "returned"
    /\ UNCHANGED <<ThreadCNT, totalTHRDS, tdslot, buffers, mutexFD, mutexOutput,
                   SNAPSHOT, zstd_stream, top, compress, iterations, active, th,
                   produced, crashed>>

(***************************************************************************)
(* traverse, run by the worker thread of slot s. The frame on top of th[s] *)
(* is the running activation; cur is tdslot[s] for the thread's first      *)
(* activation and the caller's "local" for an inline one.                  *)
(***************************************************************************)
Depth(s) == Len(th[s])

Top(s) == th[s][Depth(s)]

Cur(s) == IF Depth(s) = 1 THEN tdslot[s] ELSE th[s][Depth(s) - 1].loc

\* th with the top frame of thread s replaced.
WithTop(s, f) == [th EXCEPT ![s] = [@ EXCEPT ![Depth(s)] = f]]

At(s, where) == ~crashed /\ th[s] # <<>> /\ Top(s).pc = where

\* AfterOpendir gone wrong: a directory that cannot be opened still gets its
\* own record.
AfterOpendirSummary(ok) == IF ok THEN "readdir" ELSE "summary"

\* Lines 145-148: where traverse goes after opendir.
AfterOpendir(ok) == IF ok THEN "readdir" ELSE "cleanup"

\* Lines 144-148: opendir; on failure straight to cleanup.
Opendir(s) ==
    /\ At(s, "opendir")
    /\ th' = WithTop(s, [Top(s) EXCEPT
                            !.pc = AfterOpendir(FS[Cur(s).dname].open_ok),
                            !.pos = 1])
    /\ UNCHANGED <<globals, mainvars, produced, crashed>>

\* write_record (lines 103-131) for thread s with the line already formatted:
\* the line is appended at once, or waits in the frame for the flush that
\* has to come first (flush_buffer returns at once on an empty buffer).
WriteRecord(s, f, line, after) ==
    LET b == Cur(s).buf IN
    /\ produced' = [produced EXCEPT ![line[1].w] = Append(@, line[1].r)]
    /\ IF NeedFlush(Len(buffers[b]), Len(line)) /\ Len(buffers[b]) # 0
       THEN /\ th' = WithTop(s, [f EXCEPT !.pc = "flush", !.line = line,
                                          !.ret = after])
            /\ UNCHANGED buffers
       ELSE /\ th' = WithTop(s, [f EXCEPT !.pc = after])
            /\ buffers' = [buffers EXCEPT ![b] = @ \o line]

\* EntryRec gone wrong: the directory's parent as the entry's parent inode.
EntryRecGrandparent(cur, f) == Rec(f, cur.pinode, cur.depth, -1, 0)

\* Line 202: the record of a non-directory entry with stat f.
EntryRec(cur, f) == Rec(f, cur.pstat.st_ino, cur.depth, -1, 0)

\* Line 207: the record of the directory itself.
SummaryRec(cur, localCnt, localSz) ==
    Rec(cur.pstat, cur.pinode, cur.depth, localCnt, localSz)

\* NewLocalSz gone wrong: the sizes of subdirectories are summed too.
NewLocalSzAll(localSz, f) == localSz + f.st_size

\* Lines 163 and 201: localSz after an entry with stat f.
NewLocalSz(localSz, f) == IF f.isdir THEN localSz ELSE localSz + f.st_size

\* Lines 150-163 and 200-204: one turn of the readdir loop up to the point
\* where the entry is a directory (the fan-out follows), or the entry's
\* record is written, or readdir returns NULL.
Readdir(s) ==
    /\ At(s, "readdir")
    /\ LET cur == Cur(s)
           stream == ReadStream(cur.dname)
           i == NextEntry(stream, Top(s).pos, SNAPSHOT)
       IN IF i > Len(stream)
          THEN /\ th' = WithTop(s, [Top(s) EXCEPT !.pc = "summary", !.pos = i])
               /\ UNCHANGED <<buffers, produced>>
          ELSE LET e == stream[i].node
                   f == Stat(e)
                   fr == [Top(s) EXCEPT !.pos = i + 1, !.ent = e,
                                        !.localCnt = @ + 1,
                                        !.localSz = NewLocalSz(@, f)]
               IN IF f.isdir
                  THEN /\ th' = WithTop(s, [fr EXCEPT !.pc = "fanout"])
                       /\ UNCHANGED <<buffers, produced>>
                  ELSE WriteRecord(s, fr, Line(EntryRec(cur, f), cur.THRDid),
                                   "readdir")
    /\ UNCHANGED <<ThreadCNT, totalTHRDS, tdslot, mutexFD, mutexOutput,
                   output_file, SNAPSHOT, zstd_stream, mainvars, crashed>>

\* Lines 206-207: closedir and the directory's own record.
Summary(s) ==
    /\ At(s, "summary")
    /\ LET cur == Cur(s) IN
       WriteRecord(s, Top(s),
                   Line(SummaryRec(cur, Top(s).localCnt, Top(s).localSz),
                        cur.THRDid),
                   "cleanup")
    /\ UNCHANGED <<ThreadCNT, totalTHRDS, tdslot, mutexFD, mutexOutput,
                   output_file, SNAPSHOT, zstd_stream, mainvars, crashed>>

\* Lines 65-84: flush_buffer on a buffer that holds something: mutexOutput is
\* taken, the content written (through the compressor if there is one), the
\* buffer emptied. A write through the closed file is lost or kills the
\* process.
FlushWrite(s) ==
    /\ At(s, "flush")
    /\ mutexOutput = {}
    /\ mutexOutput' = {s}
    /\ LET b == Cur(s).buf IN
       /\ IF output_file.open
          THEN /\ output_file' = [output_file EXCEPT !.items =
                                    @ \o FlushItems(zstd_stream, buffers[b])]
               /\ UNCHANGED crashed
          ELSE /\ UNCHANGED output_file
               /\ crashed' \in {FALSE, TRUE}
       /\ buffers' = [buffers EXCEPT ![b] = <<>>]
    /\ th' = WithTop(s, [Top(s) EXCEPT !.pc = "flush_unlock"])
    /\ UNCHANGED <<ThreadCNT, totalTHRDS, tdslot, mutexFD, SNAPSHOT, zstd_stream,
                   mainvars, produced>>

\* Line 85, and back in the caller: write_record appends its line (lines
\* 129-130), cleanup goes on to release the slot.
FlushUnlock(s) ==
    /\ At(s, "flush_unlock")
    /\ mutexOutput' = {}
    /\ buffers' = [buffers EXCEPT ![Cur(s).buf] = @ \o Top(s).line]
    /\ th' = WithTop(s, [Top(s) EXCEPT !.pc = Top(s).ret, !.line = NoLine,
                                       !.ret = "none"])
    /\ UNCHANGED <<ThreadCNT, totalTHRDS, tdslot, mutexFD, output_file, SNAPSHOT,
                   zstd_stream, mainvars, produced, crashed>>

\* ScanFrom gone wrong: the scan stops at once, free slot or not.
ScanFromAny(td, slot) == slot

\* Line 167: the first slot whose THRDid is the sentinel, MAXTHRDS if none.
RECURSIVE ScanFrom(_, _)
ScanFrom(td, slot) ==
    IF slot < MAXTHRDS /\ td[slot].THRDid # UNUSED THEN ScanFrom(td, slot + 1)
    ELSE slot

\* Counted gone wrong: the claimed slot is not counted.
CountedNot(cnt) == cnt

\* Line 174: the counter after a slot was claimed.
Counted(cnt) == cnt + 1

\* InlineBuf gone wrong: the buffer of the slot the scan stopped at.
InlineBufOfSlot(cur, slot) == slot % MAXTHRDS

\* Lines 179 and 185: the buffer of an inline activation.
InlineBuf(cur, slot) == cur.buf

\* BelowCap gone wrong: the last slot is never given out.
BelowCapButOne(cnt) == cnt < MAXTHRDS - 1

\* Line 165: whether the pool has room by the counter.
BelowCap(cnt) == cnt < MAXTHRDS

\* Lines 164-186: under mutexFD, a free slot is claimed and counted, or "new"
\* is pointed at this activation's "local" for an inline call.
FanoutLock(s) ==
    /\ At(s, "fanout")
    /\ mutexFD = {}
    /\ mutexFD' = {s}
    /\ LET cur == Cur(s)
           slot == IF BelowCap(ThreadCNT) THEN ScanFrom(tdslot, 0) ELSE Top(s).slot
           inline == [Top(s) EXCEPT !.pc = "fanout_unlock", !.slot = slot,
                                    !.new = "local",
                                    !.loc = [@ EXCEPT !.THRDid = cur.THRDid,
                                                      !.flag = cur.flag + 1,
                                                      !.buf = InlineBuf(cur, slot)]]
       IN IF BelowCap(ThreadCNT) /\ slot < MAXTHRDS
          THEN /\ tdslot' = [tdslot EXCEPT ![slot] =
                               [@ EXCEPT !.THRDid = totalTHRDS, !.flag = 0,
                                         !.buf = slot]]
               /\ totalTHRDS' = totalTHRDS + 1
               /\ ThreadCNT' = Counted(ThreadCNT)
               /\ th' = WithTop(s, [Top(s) EXCEPT !.pc = "fanout_unlock",
                                                  !.slot = slot, !.new = "slot"])
          ELSE /\ th' = WithTop(s, inline)
               /\ UNCHANGED <<tdslot, totalTHRDS, ThreadCNT>>
    /\ UNCHANGED <<buffers, mutexOutput, output_file, SNAPSHOT, zstd_stream,
                   mainvars, produced, crashed>>

\* Unlocked gone wrong: the mutex stays locked.
UnlockedNot(holders, s) == holders

\* Lines 187 and 216: mutexFD after thread s has unlocked it.
Unlocked(holders, s) == holders \ {s}

\* Line 187.
FanoutUnlock(s) ==
    /\ At(s, "fanout_unlock")
    /\ mutexFD' = Unlocked(mutexFD, s)
    /\ th' = WithTop(s, [Top(s) EXCEPT !.pc = "launch"])
    /\ UNCHANGED <<ThreadCNT, totalTHRDS, tdslot, buffers, mutexOutput,
                   output_file, SNAPSHOT, zstd_stream, mainvars, produced,
                   crashed>>

\* Lines 189-192: the fields the creator fills in through "new".
Filled(td, cur, ent) ==
    [td EXCEPT !.dname = ent, !.depth = cur.depth + 1,
               !.pinode = cur.pstat.st_ino, !.pstat = Stat(ent)]

\* Lines 189-199: "new" is filled in, then a thread is created on the claimed
\* slot or traverse is called inline on "local".
Launch(s) ==
    /\ At(s, "launch")
    /\ LET cur == Cur(s)
           fr == Top(s)
           new == IF fr.new = "slot" THEN Filled(tdslot[fr.slot], cur, fr.ent)
                                     ELSE Filled(fr.loc, cur, fr.ent)
       IN /\ tdslot' = IF fr.new = "slot"
                       THEN [tdslot EXCEPT ![fr.slot] = new]
                       ELSE tdslot
          /\ IF new.THRDid # cur.THRDid
             THEN th' = [th EXCEPT ![s] = [@ EXCEPT ![Depth(s)] =
                                             [fr EXCEPT !.pc = "readdir"]],
                                   ![fr.slot] = <<NewFrame>>]
             ELSE th' = [th EXCEPT ![s] =
                           Append([@ EXCEPT ![Depth(s)] =
                                     [fr EXCEPT !.pc = "call", !.loc = new]],
                                  NewFrame)]
    /\ UNCHANGED <<ThreadCNT, totalTHRDS, buffers, mutexFD, mutexOutput,
                   output_file, SNAPSHOT, zstd_stream, mainvars, produced,
                   crashed>>

\* CleanupFlush gone wrong: the slot is released without the last flush.
CleanupFlushNever(used) == "release"

\* Lines 66 and 212-213: after flush_buffer's test of the used length.
CleanupFlush(used) == IF used = 0 THEN "release" ELSE "flush"

\* TopOfWorker gone wrong: every activation takes itself for a thread's first.
TopOfWorkerAlways(flag) == TRUE

\* Line 210: the activation is a thread's first one, not an inline call.
TopOfWorker(flag) == flag = 0

\* Lines 209-219: an activation with flag 0 flushes its buffer (at once when
\* it is empty) and goes on to release its slot; an inline one returns to its
\* caller's loop.
Cleanup(s) ==
    /\ At(s, "cleanup")
    /\ IF TopOfWorker(Cur(s).flag)
       THEN th' = WithTop(s, [Top(s) EXCEPT
                                !.pc = CleanupFlush(Len(buffers[Cur(s).buf])),
                                !.line = NoLine, !.ret = "release"])
       ELSE /\ Depth(s) > 1
            /\ th' = [th EXCEPT ![s] =
                        [SubSeq(@, 1, Depth(s) - 1) EXCEPT ![Depth(s) - 1] =
                            [@ EXCEPT !.pc = "readdir"]]]
    /\ UNCHANGED <<globals, mainvars, produced, crashed>>

\* Uncounted gone wrong: the counter is decremented twice.
UncountedTwice(cnt) == cnt - 2

\* Line 214: the counter after a worker has finished.
Uncounted(cnt) == cnt - 1

\* Freed gone wrong: the slot keeps its worker's id.
FreedNot(id) == id

\* Line 215: the THRDid of a slot given back.
Freed(id) == UNUSED

\* Lines 213-215: under mutexFD the counter is decremented and the slot
\* marked unused.
ReleaseLock(s) ==
    /\ At(s, "release")
    /\ mutexFD = {}
    /\ mutexFD' = {s}
    /\ ThreadCNT' = Uncounted(ThreadCNT)
    /\ IF Depth(s) = 1
       THEN /\ tdslot' = [tdslot EXCEPT ![s].THRDid = Freed(@)]
            /\ th' = WithTop(s, [Top(s) EXCEPT !.pc = "release_unlock"])
       ELSE /\ UNCHANGED tdslot
            /\ th' = [th EXCEPT ![s] =
                        [@ EXCEPT ![Depth(s)].pc = "release_unlock",
                                  ![Depth(s) - 1].loc.THRDid = Freed(@)]]
    /\ UNCHANGED <<totalTHRDS, buffers, mutexOutput, output_file, SNAPSHOT,
                   zstd_stream, mainvars, produced, crashed>>

\* Lines 216-217: the mutex is released and the thread exits.
ReleaseUnlock(s) ==
    /\ At(s, "release_unlock")
    /\ mutexFD' = Unlocked(mutexFD, s)
    /\ th' = [th EXCEPT ![s] = <<>>]
    /\ UNCHANGED <<ThreadCNT, totalTHRDS, tdslot, buffers, mutexOutput,
                   output_file, SNAPSHOT, zstd_stream, mainvars, produced,
                   crashed>>

Next ==
    \/ \E t \in Tops, snaps \in {0, 1}, comp \in {0, 1}, opened \in BOOLEAN :
          Enter(t, snaps, comp, opened)
    \/ WriteHeader
    \/ InitGlobals
    \/ LstatRoot
    \/ SeedRoot
    \/ CreateRoot
    \/ Poll
    \/ AfterLoop
    \/ ZEnd
    \/ ZFree
    \/ Fclose
    \/ \E s \in Slots : Opendir(s)
    \/ \E s \in Slots : Readdir(s)
    \/ \E s \in Slots : FanoutLock(s)
    \/ \E s \in Slots : FanoutUnlock(s)
    \/ \E s \in Slots : Launch(s)
    \/ \E s \in Slots : Summary(s)
    \/ \E s \in Slots : FlushWrite(s)
    \/ \E s \in Slots : FlushUnlock(s)
    \/ \E s \in Slots : Cleanup(s)
    \/ \E s \in Slots : ReleaseLock(s)
    \/ \E s \in Slots : ReleaseUnlock(s)

Spec == Init /\ [][Next]_vars

(***************************************************************************)
(* Fair scheduling: the main thread, once inside csv_write, and every      *)
(* worker thread keep taking steps as long as they can; a thread waiting   *)
(* for a mutex gets it when the mutex stays free.                          *)
(***************************************************************************)
MainStep ==
    \/ WriteHeader
    \/ InitGlobals
    \/ LstatRoot
    \/ SeedRoot
    \/ CreateRoot
    \/ Poll
    \/ AfterLoop
    \/ ZEnd
    \/ ZFree
    \/ Fclose

WorkerStep(s) ==
    \/ Opendir(s)
    \/ Readdir(s)
    \/ FanoutLock(s)
    \/ FanoutUnlock(s)
    \/ Launch(s)
    \/ Summary(s)
    \/ FlushWrite(s)
    \/ FlushUnlock(s)
    \/ Cleanup(s)
    \/ ReleaseLock(s)
    \/ ReleaseUnlock(s)

Fairness == WF_vars(MainStep) /\ \A s \in Slots : WF_vars(WorkerStep(s))

SpecFair == Init /\ [][Next]_vars /\ Fairness

(***************************************************************************)
(* A sequence of calls. csv_write has returned (its result or an error),   *)
(* no thread of the walk is left, and the caller calls it again: the       *)
(* statics keep what the call left in them, the locals are new.            *)
(***************************************************************************)
Again ==
    /\ ~crashed
    /\ pcm \in {"returned", "error"}
    /\ \A s \in Slots : th[s] = <<>>
    /\ pcm' = "idle"
    /\ top' = 0
    /\ compress' = 0
    /\ iterations' = 0
    /\ active' = 0
    /\ produced' = [w \in WorkerIds |-> <<>>]
    /\ UNCHANGED <<globals, th, crashed>>

NextCalls == Next \/ Again

SpecCalls == Init /\ [][NextCalls]_vars

(***************************************************************************)
(* What the claims speak of: the lines in the file, the walk's end, and    *)
(* what the filesystem holds.                                              *)
(***************************************************************************)

\* The records of the complete lines a reader finds in the file, in order.
SinkLines ==
    LET p == Payload(output_file.items)
        nl == SelectSeq(p, LAMBDA x : x.k = "nl")
    IN [i \in 1..Len(nl) |-> nl[i].r]

\* The worker ids of those lines, in the same order.
SinkWorkers ==
    LET p == Payload(output_file.items)
        nl == SelectSeq(p, LAMBDA x : x.k = "nl")
    IN [i \in 1..Len(nl) |-> nl[i].w]

BagOfSeq(q) ==
    [x \in {q[i] : i \in DOMAIN q} |-> Cardinality({i \in DOMAIN q : q[i] = x})]

IsEntryRecord(r) == r.fcount = -1 /\ r.dirsum = 0

IsSummaryRecord(r) == r.fcount # -1

\* The root worker has been launched and the call has not returned.
Launched == pcm \in {"poll", "after", "zend", "zfree", "fclose"}

\* The entry point has left its loop on a poll that read the counter as zero.
SawZero == pcm \in {"after", "zend", "zfree", "fclose", "returned"} /\ active = 0

\* The entry point has left its loop because the polls ran out.
TimedOut == pcm \in {"after", "zend", "zfree", "fclose", "returned"} /\ active # 0

\* The entries of directory d that the walk looks at: lstat succeeds, and the
\* name is not ".snapshot" when those are ignored.
Considered(d, snap) ==
    {FS[d].ents[i] : i \in {j \in DOMAIN FS[d].ents :
        ~Skipped([d_name |-> FS[FS[d].ents[j]].d_name, node |-> FS[d].ents[j]], snap)}}

SubDirs(d, snap) == {e \in Considered(d, snap) : FS[e].kind = "dir"}

NonDirs(d, snap) == {e \in Considered(d, snap) : FS[e].kind # "dir"}

\* The directories below (and with) d that the walk reaches, and of those the
\* ones it can open.
RECURSIVE ReachedDirs(_, _)
ReachedDirs(d, snap) ==
    {d} \cup (IF FS[d].open_ok
              THEN UNION {ReachedDirs(e, snap) : e \in SubDirs(d, snap)}
              ELSE {})

OpenedDirs(d, snap) == {x \in ReachedDirs(d, snap) : FS[x].open_ok}

RECURSIVE SumSizes(_)
SumSizes(S) ==
    IF S = {} THEN 0
    ELSE LET e == CHOOSE x \in S : TRUE IN FS[e].st_size + SumSizes(S \ {e})

\* The directory whose entry e is.
ParentOf(e) == CHOOSE d \in Nodes : \E i \in DOMAIN FS[d].ents : FS[d].ents[i] = e

\* The records of a walk of directory d done by one thread alone, in its order.
RECURSIVE SoloWalk(_, _, _, _)
SoloEntries(d, depth, snap, i) ==
    LET e == FS[d].ents[i] IN
    IF e \notin Considered(d, snap) THEN <<>>
    ELSE IF FS[e].kind = "dir" THEN SoloWalk(e, d, depth + 1, snap)
    ELSE <<Rec(Stat(e), d, depth, -1, 0)>>

RECURSIVE SoloFrom(_, _, _, _)
SoloFrom(d, depth, snap, i) ==
    IF i > Len(FS[d].ents) THEN <<>>
    ELSE SoloEntries(d, depth, snap, i) \o SoloFrom(d, depth, snap, i + 1)

SoloWalk(d, pino, depth, snap) ==
    IF ~FS[d].open_ok THEN <<>>
    ELSE SoloFrom(d, depth, snap, 1) \o
         <<Rec(Stat(d), pino, depth, Cardinality(Considered(d, snap)),
               SumSizes(NonDirs(d, snap)))>>

\* A worker formatted the records of more than one directory: it made an
\* inline call.
SomeInline ==
    \E w \in WorkerIds :
        Len(SelectSeq(produced[w], LAMBDA r : IsSummaryRecord(r))) > 1

\* C1: for a filesystem that does not change, whatever the interleaving of the
\* workers, once the entry point has read the counter as zero the file holds
\* the same multiset of record lines: the one a single thread walking the tree
\* alone produces.
C1_SameMultiset ==
    SawZero => BagOfSeq(SinkLines) = BagOfSeq(SoloWalk(top, 0, -1, SNAPSHOT))

\* C1's case: a walk that ended with workers spawned and an inline call made.
C1_Witness ==
    /\ SawZero
    /\ pcm = "returned"
    /\ totalTHRDS > 1
    /\ SomeInline
    /\ Len(SinkLines) > 3

\* The positions of the file's lines that are records of inode n.
LinesOf(n) == {i \in DOMAIN SinkLines : SinkLines[i].ino = n}

\* The non-directory entries the walk reaches.
ReachedNonDirs == UNION {NonDirs(d, SNAPSHOT) : d \in OpenedDirs(top, SNAPSHOT)}

\* C2: in the output of a walk that ran to its end, every non-directory entry
\* the walk reached (lstat succeeded) has exactly one line, an EntryRecord
\* (pw_fcount -1, pw_dirsum 0) with the entry's inode and size and the inode of
\* the directory holding it as parent inode, whether a spawned worker or an
\* inline call handled that directory; and there is no other EntryRecord.
C2_OneEntryRecord ==
    SawZero =>
        /\ \A e \in ReachedNonDirs :
              /\ Cardinality(LinesOf(e)) = 1
              /\ \A i \in LinesOf(e) :
                    /\ IsEntryRecord(SinkLines[i])
                    /\ SinkLines[i].size = FS[e].st_size
                    /\ SinkLines[i].pino = ParentOf(e)
        /\ \A i \in DOMAIN SinkLines :
              IsEntryRecord(SinkLines[i]) => SinkLines[i].ino \in ReachedNonDirs

\* C2's case: the walk of /t3 with ".snapshot" not ignored has ended, with a
\* worker spawned and an inline call made, and its four files are in the file.
C2_Witness ==
    /\ SawZero
    /\ top = 20
    /\ SNAPSHOT = 0
    /\ totalTHRDS > 1
    /\ SomeInline
    /\ Cardinality(ReachedNonDirs) = 4
    /\ \A e \in ReachedNonDirs : LinesOf(e) # {}

\* C3: in the output of a walk that ran to its end, every directory that was
\* opened has exactly one DirectorySummaryRecord; its pw_fcount is the number
\* of its entries whose lstat succeeded (subdirectories included, openable or
\* not; ".", ".." and an ignored ".snapshot" not), its pw_dirsum the sum of the
\* sizes of those that are no directories; no other directory has one. This
\* also when there are more subdirectories than worker slots.
C3_OneSummaryRecord ==
    SawZero =>
        /\ \A d \in OpenedDirs(top, SNAPSHOT) :
              /\ Cardinality(LinesOf(d)) = 1
              /\ \A i \in LinesOf(d) :
                    /\ SinkLines[i].fcount = Cardinality(Considered(d, SNAPSHOT))
                    /\ SinkLines[i].dirsum = SumSizes(NonDirs(d, SNAPSHOT))
        /\ \A i \in DOMAIN SinkLines :
              IsSummaryRecord(SinkLines[i]) =>
                  SinkLines[i].ino \in OpenedDirs(top, SNAPSHOT)

\* C3's case: /t5, with more subdirectories than slots, walked to the end with
\* an inline call, the root's summary counting its three subdirectories.
C3_Witness ==
    /\ SawZero
    /\ top = 10
    /\ Cardinality(SubDirs(top, SNAPSHOT)) > MAXTHRDS
    /\ SomeInline
    /\ \E i \in LinesOf(10) : SinkLines[i].fcount = 3 /\ SinkLines[i].dirsum = 0

\* C4: for any directory D other than the root whose DirectorySummaryRecord
\* has depth d, every EntryRecord whose parent inode is D's inode has depth
\* d + 1. (The code writes both with cur->depth: TLC finds this violated.)
C4_EntryDepthPlusOne ==
    \A i, j \in DOMAIN SinkLines :
        ( /\ IsSummaryRecord(SinkLines[j])
          /\ SinkLines[j].ino # top
          /\ IsEntryRecord(SinkLines[i])
          /\ SinkLines[i].pino = SinkLines[j].ino )
        => SinkLines[i].depth = SinkLines[j].depth + 1

\* The directories the walk reaches but cannot open (the root apart).
Unopenable == {d \in ReachedDirs(top, SNAPSHOT) \ {top} : ~FS[d].open_ok}

\* The one summary line of directory p says fcount and dirsum.
SummaryIs(p, fcount, dirsum) ==
    /\ Cardinality(LinesOf(p)) = 1
    /\ \A i \in LinesOf(p) :
          SinkLines[i].fcount = fcount /\ SinkLines[i].dirsum = dirsum

\* C5 as the code has it: a subdirectory whose lstat succeeds but which cannot
\* be opened has no line at all in the output of a walk that ran to its end,
\* neither an EntryRecord nor a DirectorySummaryRecord; its parent's summary
\* counts it once in pw_fcount and adds nothing to pw_dirsum.
C5_UnopenableNoRecord ==
    SawZero =>
        \A d \in Unopenable :
            /\ LinesOf(d) = {}
            /\ d \in Considered(ParentOf(d), SNAPSHOT)
            /\ SummaryIs(ParentOf(d),
                         Cardinality(NonDirs(ParentOf(d), SNAPSHOT)) +
                            Cardinality(SubDirs(ParentOf(d), SNAPSHOT)),
                         SumSizes(NonDirs(ParentOf(d), SNAPSHOT)))

\* C5's case: /t3, which holds the unopenable "sub", walked to the end.
C5_Witness ==
    /\ SawZero
    /\ top = 20
    /\ 24 \in Unopenable
    /\ LinesOf(20) # {}
    /\ LinesOf(21) # {}

\* C5 as claimed: the output holds exactly one line for the unopenable
\* subdirectory, an EntryRecord with the directory bit written by the parent's
\* traversal; the parent's summary counts it once and adds nothing to
\* pw_dirsum.
C5_UnopenableOneEntryRecord ==
    SawZero =>
        \A d \in Unopenable :
            /\ Cardinality(LinesOf(d)) = 1
            /\ \A i \in LinesOf(d) :
                  IsEntryRecord(SinkLines[i]) /\ SinkLines[i].isdir
            /\ SummaryIs(ParentOf(d),
                         Cardinality(Considered(ParentOf(d), SNAPSHOT)),
                         SumSizes(NonDirs(ParentOf(d), SNAPSHOT)))

\* C6 as the code has it: when the entry point returns its result after a
\* poll read the counter as zero (the loop did not run out of iterations),
\* ThreadCNT is zero at that moment.
C6_ZeroAtReturnUnlessTimeout ==
    (pcm = "returned" /\ iterations < max_iterations) => ThreadCNT = 0

\* C6's case: a return after at least one poll that saw workers running and a
\* later one that read zero.
C6_Witness ==
    /\ pcm = "returned"
    /\ iterations > 0
    /\ iterations < max_iterations
    /\ ThreadCNT = 0
    /\ totalTHRDS > 1

\* C6 as claimed: on every path to the success result, the timeout's too,
\* ThreadCNT is zero when the entry point returns.
C6_ZeroAtEveryReturn == pcm = "returned" => ThreadCNT = 0

\* Every record formatted so far, worker by worker.
RECURSIVE ProducedUpTo(_)
ProducedUpTo(w) == IF w < 0 THEN <<>> ELSE ProducedUpTo(w - 1) \o produced[w]

AllProduced == ProducedUpTo(Cardinality(WorkerIds) - 1)

\* No worker has anything left to do but to let go of mutexFD and exit.
NoWorkerAtWork ==
    \A s \in Slots : th[s] = <<>> \/ (Depth(s) = 1 /\ Top(s).pc = "release_unlock")

\* All work is done: no worker is at work, no slot is claimed (so no worker is
\* about to be created), every directory the walk reaches has been traversed,
\* every buffer is empty and every record formatted is in the file.
AllWorkDone ==
    /\ NoWorkerAtWork
    /\ \A s \in Slots : tdslot[s].THRDid = UNUSED
    /\ \A s \in Slots : Len(buffers[s]) = 0
    /\ mutexOutput = {}
    /\ BagOfSeq(SinkLines) = BagOfSeq(AllProduced)
    /\ BagOfSeq(AllProduced) = BagOfSeq(SoloWalk(top, 0, -1, SNAPSHOT))

C7_ZeroMeansDone == (Launched /\ ThreadCNT = 0) => AllWorkDone

C7_ZeroStaysZero == (Launched /\ ThreadCNT = 0) => ThreadCNT' = 0

\* C7: from the launch of the root worker to the return of the call, in every
\* state where ThreadCNT is zero all work is done (AllWorkDone), and once zero
\* the counter does not rise again in that call.
C7_ZeroIffDone == [](C7_ZeroMeansDone) /\ [][C7_ZeroStaysZero]_vars

\* C7's case: the counter has come down to zero after several workers ran,
\* while the entry point has not yet polled it.
C7_Witness ==
    /\ pcm = "poll"
    /\ ThreadCNT = 0
    /\ totalTHRDS > 2
    /\ Len(SinkLines) > 4

\* q is a whole number of complete lines: each text followed by its newline.
WholeLines(q) ==
    /\ Len(q) % 2 = 0
    /\ \A i \in 1..(Len(q) \div 2) :
          /\ q[2 * i - 1].k = "text"
          /\ q[2 * i].k = "nl"
          /\ q[2 * i].r = q[2 * i - 1].r
          /\ q[2 * i].w = q[2 * i - 1].w

\* C8: record atomicity. Every buffer holds a whole number of complete lines;
\* a worker that has written its buffer out holds mutexOutput, alone, and what
\* a flush handed to the compressor is a whole number of complete lines; the
\* uncompressed payload of the file is at every moment a whole number of
\* complete lines, none split by tokens of another worker.
C8_RecordAtomicity ==
    /\ \A s \in Slots : WholeLines(buffers[s])
    /\ \A s \in Slots :
          (th[s] # <<>> /\ Top(s).pc = "flush_unlock") => mutexOutput = {s}
    /\ Cardinality(mutexOutput) <= 1
    /\ \A i \in DOMAIN output_file.items :
          output_file.items[i].k = "z" => WholeLines(output_file.items[i].data)
    /\ WholeLines(Payload(output_file.items))

\* C8's case: a worker has just flushed a full buffer from inside write_record
\* (its next line waits), and lines of two workers are in the file.
C8_Witness ==
    /\ \E s \in Slots :
          th[s] # <<>> /\ Top(s).pc = "flush_unlock" /\ Top(s).line # NoLine
    /\ Cardinality({SinkWorkers[i] : i \in DOMAIN SinkWorkers}) > 1

\* The records of worker w in the file, in the file's order.
SinkOf(w) ==
    LET p == Payload(output_file.items)
        nl == SelectSeq(p, LAMBDA x : x.k = "nl" /\ x.w = w)
    IN [i \in 1..Len(nl) |-> nl[i].r]

IsPrefix(a, b) == Len(a) <= Len(b) /\ SubSeq(b, 1, Len(a)) = a

\* C9: the records of one worker (its first activation and its inline ones)
\* are in the file in the order the worker formatted them; the summary of a
\* directory D comes after the EntryRecords of all of D's non-directory
\* entries.
C9_WorkerOrder ==
    /\ \A w \in WorkerIds : IsPrefix(SinkOf(w), produced[w])
    /\ \A j \in DOMAIN SinkLines :
          IsSummaryRecord(SinkLines[j]) =>
              /\ \A e \in NonDirs(SinkLines[j].ino, SNAPSHOT) :
                    \E i \in 1..(j - 1) :
                        SinkLines[i].ino = e /\ IsEntryRecord(SinkLines[i])
              /\ \A i \in DOMAIN SinkLines :
                    (IsEntryRecord(SinkLines[i]) /\ SinkLines[i].pino = SinkLines[j].ino)
                        => i < j

\* C9's case: one worker's records reached the file in more than one flush,
\* among them the summary of a directory with two files, walked inline.
C9_Witness ==
    /\ top = 20
    /\ SomeInline
    /\ \E j \in LinesOf(26) :
          /\ IsSummaryRecord(SinkLines[j])
          /\ Len(SinkOf(SinkWorkers[j])) > 3
    /\ LinesOf(27) # {} /\ LinesOf(28) # {}

PastLoop == pcm \in {"after", "zend", "zfree", "fclose", "returned"}

\* C10: the entry point polls at most max_iterations times; it leaves the loop
\* early exactly when a poll read the counter as zero, and otherwise when the
\* polls have run out; past the loop none of its steps waits for a worker, and
\* when it has returned the compressor is finalized and released and the file
\* closed, workers running or not.
C10_BoundedWait ==
    /\ iterations <= max_iterations
    /\ pcm = "poll" => iterations < max_iterations
    /\ PastLoop => (iterations < max_iterations <=> active = 0)
    /\ PastLoop => (iterations = max_iterations <=> active # 0)
    /\ (pcm \in {"after", "zend", "zfree", "fclose"} /\ ~crashed)
          => ENABLED (AfterLoop \/ ZEnd \/ ZFree \/ Fclose)
    /\ pcm = "returned" =>
          /\ ~output_file.open
          /\ zstd_stream = "NULL"
          /\ compress # 0 =>
                \E i \in DOMAIN output_file.items : output_file.items[i] = FrameEnd

\* C10's case: the polls ran out and the entry point has returned, with the
\* file closed, while workers are still running and counted.
C10_Witness ==
    /\ pcm = "returned"
    /\ iterations = max_iterations
    /\ active # 0
    /\ ThreadCNT > 1
    /\ \E s \in Slots : th[s] # <<>> /\ Top(s).pc = "readdir"
    /\ ~output_file.open

\* On every return path the file is closed and the compressor released and
\* its pointer cleared.
C11_ReleasedOnReturn ==
    pcm \in {"returned", "error"} => (~output_file.open /\ zstd_stream = "NULL")

\* A call made with compression off writes its record bytes raw.
C11_RawWhenOff ==
    (pcm # "idle" /\ compress = 0) =>
        \A i \in DOMAIN output_file.items : output_file.items[i].k # "z"

\* A call made with compression on, whose walk ran to its end, leaves the
\* header followed by one frame: chunks only, then the frame's end, once.
C11_OneFrameWhenOn ==
    (pcm = "returned" /\ compress # 0 /\ active = 0) =>
        LET n == Len(output_file.items) IN
        /\ n >= 2
        /\ output_file.items[1] = Header
        /\ output_file.items[n] = FrameEnd
        /\ \A i \in 2..(n - 1) : output_file.items[i].k = "z"

\* C11: the file and the compressor live for exactly one call: on every
\* return path the file is closed and the compressor released and cleared, so
\* in any sequence of calls a call with compression off writes its records
\* raw and a call with compression on leaves one frame that it ended itself.
C11_SinkLivesOneCall ==
    /\ C11_ReleasedOnReturn
    /\ C11_RawWhenOff
    /\ C11_OneFrameWhenOn

\* The call in progress was given a root whose lstat fails.
RootLstatFails == pcm # "idle" /\ ~FS[top].lstat_ok

NoWorkerLaunched ==
    /\ \A s \in Slots : th[s] = <<>>
    /\ \A w \in WorkerIds : produced[w] = <<>>
    /\ \A s \in Slots : buffers[s] = <<>>
    /\ SinkLines = <<>>

\* C12: a call whose fopen fails or whose root cannot be lstat'ed returns an
\* error without launching a worker: it never gets past the lstat, no thread
\* runs on any slot, ThreadCNT is 0 at the return, no record line is written,
\* and the file is closed at the return.
C12_ErrorWithoutWorker ==
    /\ RootLstatFails =>
          (pcm \in {"header", "init", "lstat", "error"} /\ NoWorkerLaunched)
    /\ pcm = "error" =>
          /\ NoWorkerLaunched
          /\ ThreadCNT = 0
          /\ ~output_file.open
          /\ \A i \in DOMAIN output_file.items : output_file.items[i] = Header

\* C12's case: the root's lstat failed, in a call made after an earlier walk
\* had used the slots: the header is in the file, the file is closed.
C12_Witness ==
    /\ pcm = "error"
    /\ RootLstatFails
    /\ output_file.items = <<Header>>
    /\ tdslot[1].dname # 0

\* C12's other case: fopen failed, after an earlier walk.
C12_WitnessOpen ==
    /\ pcm = "error"
    /\ output_file.items = <<>>
    /\ tdslot[1].dname # 0

\* How many of the file's items are the header.
HeaderCount == Cardinality({i \in DOMAIN output_file.items : output_file.items[i] = Header})

\* The header is in the file once, as its first item, from before the root
\* worker is launched; it is written raw (no chunk holds anything but record
\* tokens).
C13_HeaderOnceFirst ==
    /\ pcm \in {"init", "lstat", "seed", "create", "poll", "after", "zend",
                "zfree", "fclose", "returned"} =>
          (HeaderCount = 1 /\ output_file.items[1] = Header)
    /\ pcm = "header" => HeaderCount = 0
    /\ (\E s \in Slots : th[s] # <<>>) => HeaderCount = 1
    /\ \A i \in DOMAIN output_file.items :
          output_file.items[i].k = "z" =>
              \A j \in DOMAIN output_file.items[i].data :
                  output_file.items[i].data[j].k \in {"text", "nl"}

\* With compression on, no record token is in the file outside a chunk.
C13_RecordsOnlyCompressed ==
    (pcm # "idle" /\ compress # 0) =>
        \A i \in DOMAIN output_file.items :
            output_file.items[i].k \notin {"text", "nl"}

\* C13: the header is written once per call, before the root worker is
\* launched and so before every record byte, straight to the file and never
\* through the compressor; with compression on every record byte reaches the
\* file only as compressor output.
C13_HeaderRawRecordsCompressed ==
    /\ C13_HeaderOnceFirst
    /\ C13_RecordsOnlyCompressed

\* The slots whose THRDid is not the "unused" sentinel.
UsedSlots == {s \in Slots : tdslot[s].THRDid # UNUSED}

\* Slot 0 has been seeded.
Seeded == pcm \in {"create", "poll", "after", "zend", "zfree", "fclose", "returned"}

\* C14: from the seeding of slot 0 on, whenever mutexFD is free, ThreadCNT is
\* the number of slots whose THRDid is not -1.
C14_CounterIsUsedSlots ==
    (Seeded /\ mutexFD = {}) => ThreadCNT = Cardinality(UsedSlots)

\* C14's case: mutexFD is free, every slot is in use and counted, and slots
\* have been given back and claimed again before.
C14_Witness ==
    /\ Seeded
    /\ mutexFD = {}
    /\ ThreadCNT = MAXTHRDS
    /\ UsedSlots = Slots
    /\ totalTHRDS > MAXTHRDS

\* The thread of slot s runs and has not yet given its slot back.
Running(s) == th[s] # <<>> /\ Top(s).pc # "release_unlock"

\* The buffers the activations of thread s write to and flush: that of its
\* slot and those its inline calls were handed.
BufsOf(s) == {tdslot[s].buf} \cup {th[s][i].loc.buf : i \in 1..(Depth(s) - 1)}

\* The slots that a thread has claimed and is about to create a thread on.
ClaimedBy(s) ==
    {th[s][i].slot : i \in {j \in 1..Depth(s) :
        th[s][j].new = "slot" /\ th[s][j].pc \in {"fanout_unlock", "launch"}}}

\* C15: exclusive ownership. A slot whose thread runs keeps that thread's id
\* until the thread has flushed and released it, and running threads have
\* different ids; a slot just claimed has no thread on it, an empty buffer,
\* and one claimer; all activations of a thread use the buffer of the
\* thread's own slot, so no two threads append to or flush one buffer.
C15_ExclusiveOwnership ==
    /\ \A s \in Slots : Running(s) => tdslot[s].THRDid # UNUSED
    /\ \A s1, s2 \in Slots :
          (Running(s1) /\ Running(s2) /\ s1 # s2) =>
              tdslot[s1].THRDid # tdslot[s2].THRDid
    /\ \A s \in Slots : th[s] # <<>> => BufsOf(s) = {s}
    /\ \A s \in Slots : th[s] # <<>> =>
          \A x \in ClaimedBy(s) :
              /\ x # s
              /\ th[x] = <<>>
              /\ buffers[x] = <<>>
              /\ tdslot[x].THRDid # UNUSED
              /\ \A s2 \in Slots : (s2 # s /\ th[s2] # <<>>) => x \notin ClaimedBy(s2)

\* C15's case: a thread runs on a slot that was given back and claimed again,
\* while another thread is inside an inline call.
C15_Witness ==
    \E x, y \in Slots :
        /\ x # y
        /\ Running(x) /\ tdslot[x].THRDid >= MAXTHRDS
        /\ Running(y) /\ Depth(y) > 1
        /\ buffers[x] # <<>> /\ buffers[y] # <<>>

\* C16: in every reachable state ThreadCNT is at least 0 and at most
\* MAXTHRDS, and the workers that exist at the same time are no more than
\* ThreadCNT counts.
C16_CounterInRange ==
    /\ ThreadCNT >= 0
    /\ ThreadCNT <= MAXTHRDS
    /\ Cardinality({s \in Slots : Running(s)}) <= ThreadCNT

\* C16's case: the counter is at the cap and a worker that found a further
\* subdirectory was refused a slot.
C16_Witness ==
    /\ ThreadCNT = MAXTHRDS
    /\ Cardinality({s \in Slots : Running(s)}) = MAXTHRDS
    /\ \E s \in Slots :
          th[s] # <<>> /\ Top(s).pc = "fanout_unlock" /\ Top(s).new = "local"

\* The fan-out step of thread s: with mutexFD taken, a free slot is claimed
\* exactly when the counter is below MAXTHRDS (a free slot is then found),
\* otherwise "new" is the thread's own local copy with the same worker id, a
\* nested role and the same buffer.
C17_Decision ==
    \A s \in Slots :
        (th[s] # <<>> /\ Top(s).pc = "fanout" /\ th'[s] # th[s]) =>
            LET fr == th'[s][Depth(s)]
                cur == Cur(s)
            IN /\ mutexFD' = {s}
               /\ IF ThreadCNT < MAXTHRDS
                  THEN /\ fr.new = "slot"
                       /\ fr.slot \in Slots
                       /\ tdslot[fr.slot].THRDid = UNUSED
                       /\ tdslot'[fr.slot].THRDid = totalTHRDS
                       /\ tdslot'[fr.slot].THRDid # cur.THRDid
                       /\ tdslot'[fr.slot].flag = 0
                       /\ tdslot'[fr.slot].buf = fr.slot
                       /\ ThreadCNT' = ThreadCNT + 1
                  ELSE /\ fr.new = "local"
                       /\ fr.loc.THRDid = cur.THRDid
                       /\ fr.loc.flag = cur.flag + 1
                       /\ fr.loc.buf = cur.buf
                       /\ UNCHANGED <<tdslot, ThreadCNT, totalTHRDS>>

\* What the decision leads to: a claimed slot gets a thread of its own, an
\* inline call runs on the same thread, nested, with the thread's worker id
\* and buffer.
C17_Roles ==
    \A s \in Slots : th[s] # <<>> =>
        /\ tdslot[s].flag = 0
        /\ \A i \in 1..(Depth(s) - 1) :
              /\ th[s][i].pc = "call"
              /\ th[s][i].new = "local"
              /\ th[s][i].loc.flag = i
              /\ th[s][i].loc.buf = tdslot[s].buf
              /\ Running(s) => th[s][i].loc.THRDid = tdslot[s].THRDid

\* C17: for each subdirectory a worker is spawned on a free slot exactly when
\* ThreadCNT < MAXTHRDS while mutexFD is held, otherwise the subdirectory is
\* walked inline by the same thread (nested role, same worker id, same
\* buffer); "below the cap but no free slot" does not happen.
C17_FanoutDecision == [][C17_Decision]_vars /\ [](C17_Roles)

\* C17's case: one thread walks a subdirectory inline while the thread it
\* spawned for an earlier subdirectory runs on the other slot.
C17_Witness ==
    \E s, x \in Slots :
        /\ s # x
        /\ Running(s) /\ Depth(s) = 2 /\ Top(s).pc = "readdir"
        /\ Running(x) /\ tdslot[x].pinode = tdslot[s].pstat.st_ino

\* A worker about to give its slot back has flushed: its buffer is empty and
\* nothing of it waits for mutexOutput; one that has given it back has the
\* slot marked unused.
C18_FlushedFirst ==
    \A s \in Slots : th[s] # <<>> =>
        /\ Top(s).pc = "release" =>
              (Depth(s) = 1 /\ buffers[s] = <<>> /\ tdslot[s].THRDid # UNUSED
                 /\ s \notin mutexOutput)
        /\ Top(s).pc = "release_unlock" =>
              (Depth(s) = 1 /\ buffers[s] = <<>> /\ tdslot[s].THRDid = UNUSED
                 /\ mutexFD = {s})

\* The steps of finalization. Once slot 0 is seeded, the counter goes down
\* and a slot is marked unused only in the release step of a thread's first
\* activation, by one and one slot; after that step the thread only ends, and
\* a thread ends in no other way; an inline activation returns to its
\* caller's loop and changes neither counter, slot table, buffers nor file.
C18_Steps ==
    /\ (Seeded /\
        (ThreadCNT' < ThreadCNT \/
         \E x \in Slots : tdslot[x].THRDid # UNUSED /\ tdslot'[x].THRDid = UNUSED)) =>
          \E s \in Slots :
              /\ th[s] # <<>> /\ Depth(s) = 1 /\ Top(s).pc = "release"
              /\ ThreadCNT' = ThreadCNT - 1
              /\ tdslot' = [tdslot EXCEPT ![s].THRDid = UNUSED]
              /\ th'[s] = <<[Top(s) EXCEPT !.pc = "release_unlock"]>>
    /\ \A s \in Slots :
          (th[s] # <<>> /\ th'[s] = <<>>) => Top(s).pc = "release_unlock"
    /\ \A s \in Slots :
          (th[s] # <<>> /\ Top(s).pc = "release_unlock" /\ th'[s] # th[s]) =>
              (th'[s] = <<>> /\ UNCHANGED <<ThreadCNT, tdslot>>)
    /\ \A s \in Slots :
          (th[s] # <<>> /\ th'[s] # <<>> /\ Len(th'[s]) < Len(th[s])) =>
              /\ Top(s).pc = "cleanup"
              /\ Cur(s).flag # 0
              /\ Len(th'[s]) = Len(th[s]) - 1
              /\ th'[s][Len(th'[s])].pc = "readdir"
              /\ UNCHANGED <<ThreadCNT, tdslot, buffers, output_file, mutexOutput,
                             mutexFD>>

\* C18: a thread's first activation, whether its directory could be opened or
\* not, first flushes its buffer and afterwards, once, marks its slot unused
\* and decrements ThreadCNT; an inline activation returns to its caller
\* without flushing and without changing the counter or any slot's THRDid.
C18_FinalizeProtocol == [](C18_FlushedFirst) /\ [][C18_Steps]_vars

\* C18's case: the worker of the directory that cannot be opened has given
\* its slot back, after a worker's inline call had returned to its loop.
C18_Witness ==
    /\ \E s \in Slots :
          /\ th[s] # <<>> /\ Top(s).pc = "release_unlock"
          /\ tdslot[s].dname = 24
    /\ SomeInline

\* A thread that has claimed a slot and released mutexFD finds the slot fully
\* initialized: path, depth, parent inode and stat of the subdirectory too.
C19_InitializedAtUnlock ==
    \A s \in Slots :
        (th[s] # <<>> /\ Top(s).pc = "launch" /\ Top(s).new = "slot") =>
            tdslot[Top(s).slot] = Filled(tdslot[Top(s).slot], Cur(s), Top(s).ent)

\* Once the walk runs, a step that writes the slot table or the counter is
\* the step of a thread that holds mutexFD in it.
C19_Step ==
    (Seeded /\ (tdslot' # tdslot \/ ThreadCNT' # ThreadCNT)) =>
        \E s \in Slots :
            /\ th[s] # <<>>
            /\ th'[s] # th[s]
            /\ mutexFD = {s} \/ mutexFD' = {s}

\* C19: every write to a slot of the table (THRDid, flag, buf, dname, pinode,
\* depth, pstat) and every write to ThreadCNT happens while mutexFD is held,
\* and a newly claimed slot is fully initialized before mutexFD is released.
C19_WritesUnderLock == [](C19_InitializedAtUnlock) /\ [][C19_Step]_vars

\* Once the walk runs, a step that changes the file or the compressor is made
\* by a thread that holds mutexOutput in it.
C20_ChangedUnderGuard ==
    (Launched /\ (output_file' # output_file \/ zstd_stream' # zstd_stream)) =>
        \E s \in Slots : th[s] # <<>> /\ th'[s] # th[s] /\ mutexOutput' = {s}

\* A step of finalization is not made while a worker is inside flush_buffer
\* with mutexOutput.
C20_NotDuringFlush ==
    (pcm \in {"zend", "zfree", "fclose"} /\ pcm' # pcm) => mutexOutput = {}

\* A flush writes before the frame is ended, the compressor released and the
\* file closed.
C20_NoFlushAfterEnd ==
    \A s \in Slots :
        (th[s] # <<>> /\ Top(s).pc = "flush" /\ th'[s] # th[s]) =>
            /\ output_file.open
            /\ pcm \notin {"zfree", "fclose", "returned"}

\* C20: every operation that changes the file or the compressor (a flush's
\* write, the end of the frame, the compressor's release, the close) is done
\* with mutexOutput held, so finalization never runs while a worker flushes
\* and no flush follows the end of the frame or the close of the file.
C20_SinkUnderGuard ==
    [][C20_ChangedUnderGuard /\ C20_NotDuringFlush /\ C20_NoFlushAfterEnd]_vars

\* No thread holds mutexFD and mutexOutput at the same time.
C21_OneLockAtATime == \A s \in Slots : ~(s \in mutexFD /\ s \in mutexOutput)

\* The entry point never leaves its loop because the polls ran out.
C21_NeverTimesOut == ~TimedOut

\* Every claimed slot is eventually released.
C21_SlotsReleased ==
    \A s \in Slots :
        (Seeded /\ tdslot[s].THRDid # UNUSED) ~> (tdslot[s].THRDid = UNUSED)

C21_DiesOnlyAfterTimeout == crashed => TimedOut

\* The walk is over: no worker thread is left, no slot is claimed, the
\* counter is zero and both mutexes are free.
AllQuiet ==
    /\ \A s \in Slots : th[s] = <<>> /\ tdslot[s].THRDid = UNUSED
    /\ ThreadCNT = 0
    /\ mutexFD = {} /\ mutexOutput = {}

====
